---- MODULE Spec2Model ----
(***************************************************************************)
(* A model of rustupscheck (src/main.rs, src/manifest.rs): the version     *)
(* model (Channel, Commit, Version with their orderings and parsers), the  *)
(* release descriptor (Manifest) with its rename / target / wildcard       *)
(* lookup, and the backward date scan of main().                           *)
(*                                                                         *)
(* Text is modelled as a sequence of one-character strings, so that the    *)
(* parsers split, trim and read digits the way the source does.            *)
(* Calendar dates are records [y, m, d]; the scan cursor is a day number   *)
(* (days since 0000-12-31, as chrono's num_days_from_ce).                  *)
(***************************************************************************)
EXTENDS Integers, Sequences, FiniteSets, TLC

VARIABLES
    \* ---- the scan of main() (struct Rust, main.rs:98-104) ----
    pc,          \* position of main(): "scan", "found", "done"; "idle" outside Spec
    offset,      \* Rust.offset
    date,        \* Rust.date, a day number
    toolchain,   \* Rust.toolchain: [channel, target, components, manifest]
    response,    \* what fetch_manifest returned for `date`
    manifest,    \* Rust.manifest: Option<Manifest>, None or a manifest record
    output,      \* what main() printed: [kind, date, add]
    evaluated,   \* history: the dates the filter of main() has examined
    qualified,   \* history: the examined dates whose descriptor qualified
    \* ---- pure functions applied to drawn inputs ----
    input,       \* the inputs drawn for the function under check
    result       \* what the function returned on `input`

vars == <<pc, offset, date, toolchain, response, manifest, output,
          evaluated, qualified, input, result>>

\* Option<T>
None == [some |-> FALSE]
Some(v) == [some |-> TRUE, val |-> v]

(***************************************************************************)
(* Text                                                                    *)
(***************************************************************************)

\* The characters of the model's texts, in ascending byte order.
Alphabet ==
    <<" ", "(", ")", "-", ".",
      "0", "1", "2", "3", "4", "5", "6", "7", "8", "9",
      "a", "b", "c", "d", "e", "f", "g", "h", "i", "j", "k", "l", "m",
      "n", "o", "p", "q", "r", "s", "t", "u", "v", "w", "x", "y", "z">>

Digits == {"0", "1", "2", "3", "4", "5", "6", "7", "8", "9"}

\* The rank of a character in byte order.
Code(c) == CHOOSE i \in 1..Len(Alphabet) : Alphabet[i] = c

DigitVal(c) == Code(c) - Code("0")

\* Ordering values of std::cmp::Ordering.
Less == "Less"
Equal == "Equal"
Greater == "Greater"

IntCmp(a, b) == IF a < b THEN Less ELSE IF a > b THEN Greater ELSE Equal

\* str::cmp: lexicographic by bytes, a proper prefix is smaller.
RECURSIVE StrCmp(_, _)
StrCmp(s, t) ==
    IF s = <<>> /\ t = <<>> THEN Equal
    ELSE IF s = <<>> THEN Less
    ELSE IF t = <<>> THEN Greater
    ELSE IF Code(Head(s)) < Code(Head(t)) THEN Less
    ELSE IF Code(Head(s)) > Code(Head(t)) THEN Greater
    ELSE StrCmp(Tail(s), Tail(t))

\* Index of the first occurrence of c in s, 0 when there is none.
RECURSIVE IndexOf(_, _, _)
IndexOf(s, c, from) ==
    IF from > Len(s) THEN 0
    ELSE IF s[from] = c THEN from
    ELSE IndexOf(s, c, from + 1)

\* str::split(c): every piece between separators, empty pieces included.
RECURSIVE Split(_, _)
Split(s, c) ==
    LET i == IndexOf(s, c, 1)
    IN  IF i = 0 THEN <<s>>
        ELSE <<SubSeq(s, 1, i - 1)>> \o Split(SubSeq(s, i + 1, Len(s)), c)

\* str::splitn(2, c): the text before the first separator and the rest.
SplitN2(s, c) ==
    LET i == IndexOf(s, c, 1)
    IN  IF i = 0 THEN <<s>>
        ELSE <<SubSeq(s, 1, i - 1), SubSeq(s, i + 1, Len(s))>>

\* str::split_whitespace: the non-empty pieces between runs of white space.
split_whitespace(s) == SelectSeq(Split(s, " "), LAMBDA w : w # <<>>)

IsParen(c) == c = "(" \/ c = ")"

RECURSIVE TrimStartParens(_)
TrimStartParens(s) ==
    IF s # <<>> /\ IsParen(Head(s)) THEN TrimStartParens(Tail(s)) ELSE s

RECURSIVE TrimEndParens(_)
TrimEndParens(s) ==
    IF s # <<>> /\ IsParen(s[Len(s)])
    THEN TrimEndParens(SubSeq(s, 1, Len(s) - 1))
    ELSE s

\* str::trim_matches(|c| c == '(' || c == ')')
trim_matches(s) == TrimEndParens(TrimStartParens(s))

\* str::trim_left: leading white space removed.
RECURSIVE trim_left(_)
trim_left(s) == IF s # <<>> /\ Head(s) = " " THEN trim_left(Tail(s)) ELSE s

(***************************************************************************)
(* Results: Ok(value), Err (a returned error), Panic (the thread aborts,   *)
(* e.g. an index out of bounds).                                           *)
(***************************************************************************)
Ok(v) == [tag |-> "Ok", val |-> v]
Err == [tag |-> "Err", val |-> "error"]
Panic == [tag |-> "Panic", val |-> "abort"]

\* Result::ok
ok(r) == IF r.tag = "Ok" THEN Some(r.val) ELSE None

(***************************************************************************)
(* Calendar dates: chrono::NaiveDate                                       *)
(***************************************************************************)

\* The number of leading digits of s, at most max.
RECURSIVE CountDigits(_, _)
CountDigits(s, max) ==
    IF s = <<>> \/ max = 0 \/ Head(s) \notin Digits THEN 0
    ELSE 1 + CountDigits(Tail(s), max - 1)

RECURSIVE NumVal(_)
NumVal(s) ==
    IF s = <<>> THEN 0 ELSE 10 * NumVal(SubSeq(s, 1, Len(s) - 1)) + DigitVal(s[Len(s)])

\* chrono::format::scan::number(s, 1, max): one to max leading digits.
scan_number(s, max) ==
    LET n == CountDigits(s, max)
    IN  IF n = 0 THEN Err
        ELSE Ok([v |-> NumVal(SubSeq(s, 1, n)), rest |-> SubSeq(s, n + 1, Len(s))])

IsLeap(y) == y % 4 = 0 /\ (y % 100 # 0 \/ y % 400 = 0)

DaysInMonth(y, m) ==
    IF m = 2 THEN (IF IsLeap(y) THEN 29 ELSE 28)
    ELSE IF m \in {4, 6, 9, 11} THEN 30
    ELSE 31

\* NaiveDate::from_ymd_opt: the date when it exists in the calendar.
ValidDate(y, m, d) ==
    /\ y \in -262144..262143
    /\ m \in 1..12
    /\ d \in 1..DaysInMonth(y, m)

\* NaiveDate::parse_from_str(s, "%Y-%m-%d"): a numeric item skips leading
\* white space; %Y reads a sign and any number of digits, or 1-4 digits
\* without sign; %m and %d read 1-2 digits; nothing may follow the day.
parse_from_str(s) ==
    LET s1 == trim_left(s)
        neg == s1 # <<>> /\ Head(s1) = "-"
        yr == IF neg THEN scan_number(Tail(s1), Len(s1)) ELSE scan_number(s1, 4)
    IN  IF yr.tag # "Ok" THEN Err
        ELSE IF yr.val.rest = <<>> \/ Head(yr.val.rest) # "-" THEN Err
        ELSE
        LET mo == scan_number(trim_left(Tail(yr.val.rest)), 2)
        IN  IF mo.tag # "Ok" THEN Err
            ELSE IF mo.val.rest = <<>> \/ Head(mo.val.rest) # "-" THEN Err
            ELSE
            LET dy == scan_number(trim_left(Tail(mo.val.rest)), 2)
                y == IF neg THEN 0 - yr.val.v ELSE yr.val.v
            IN  IF dy.tag # "Ok" THEN Err
                ELSE IF dy.val.rest # <<>> THEN Err
                ELSE IF ~ValidDate(y, mo.val.v, dy.val.v) THEN Err
                ELSE Ok([y |-> y, m |-> mo.val.v, d |-> dy.val.v])

\* NaiveDate's derived ordering: by year, then month, then day.
DateCmp(a, b) ==
    IF a.y # b.y THEN IntCmp(a.y, b.y)
    ELSE IF a.m # b.m THEN IntCmp(a.m, b.m)
    ELSE IntCmp(a.d, b.d)

RECURSIVE DaysBeforeMonth(_, _)
DaysBeforeMonth(y, m) ==
    IF m = 1 THEN 0 ELSE DaysBeforeMonth(y, m - 1) + DaysInMonth(y, m - 1)

\* Datelike::num_days_from_ce, for years of the common era.
DayNumber(dt) ==
    LET p == dt.y - 1
    IN  365 * p + (p \div 4) - (p \div 100) + (p \div 400)
        + DaysBeforeMonth(dt.y, dt.m) + dt.d

(***************************************************************************)
(* Channel, Commit, Version                                                *)
(***************************************************************************)
Stable == "Stable"
Beta == "Beta"
Nightly == "Nightly"
Channels == {Stable, Beta, Nightly}

\* Channel::to_u8
to_u8(ch) == CASE ch = Stable -> 0 [] ch = Beta -> 1 [] ch = Nightly -> 2

\* impl Ord for Channel
ChannelCmp(a, b) == IntCmp(to_u8(a), to_u8(b))

\* Channel::from_str of main.rs: Option<Channel>
Channel_from_str(s) ==
    IF s = <<"s", "t", "a", "b", "l", "e">> \/ s = <<>> THEN Some(Stable)
    ELSE IF s = <<"b", "e", "t", "a">> THEN Some(Beta)
    ELSE IF s = <<"n", "i", "g", "h", "t", "l", "y">> THEN Some(Nightly)
    ELSE None

\* impl FromStr for Channel of manifest.rs: Result<Channel, String>
Channel_parse(s) ==
    IF s = <<"s", "t", "a", "b", "l", "e">> \/ s = <<>> THEN Ok(Stable)
    ELSE IF s = <<"b", "e", "t", "a">> THEN Ok(Beta)
    ELSE IF s = <<"n", "i", "g", "h", "t", "l", "y">> THEN Ok(Nightly)
    ELSE Err

\* impl Ord for Commit: by date alone
CommitCmp(a, b) == DateCmp(a.date, b.date)

\* CommitEq as #[derive(PartialEq)] would make it: the hash compared too.
CommitEqMutHash(a, b) == a.date = b.date /\ a.hash = b.hash

\* impl PartialEq for Commit: by date alone
CommitEq(a, b) == a.date = b.date

\* impl Ord for Version: channel, then version string, then commit
VersionCmp(a, b) ==
    LET c1 == ChannelCmp(a.channel, b.channel)
        c2 == StrCmp(a.version, b.version)
        c3 == CommitCmp(a.commit, b.commit)
    IN  CASE c1 = Greater -> Greater
          [] c1 = Less -> Less
          [] c1 = Equal ->
                CASE c2 = Greater -> Greater
                  [] c2 = Less -> Less
                  [] c2 = Equal ->
                        CASE c3 = Greater -> Greater
                          [] c3 = Less -> Less
                          [] c3 = Equal -> Equal

\* VersionEq as #[derive(PartialEq)] would make it: the whole commit, hash
\* included, compared.
VersionEqMutDerived(a, b) ==
    a.channel = b.channel /\ a.version = b.version /\ a.commit = b.commit

\* impl PartialEq for Version
VersionEq(a, b) ==
    /\ a.channel = b.channel
    /\ a.version = b.version
    /\ a.commit.date = b.commit.date

\* PartialOrd::lt and gt, through partial_cmp = Some(cmp)
VersionLt(a, b) == VersionCmp(a, b) = Less
VersionGt(a, b) == VersionCmp(a, b) = Greater
CommitLt(a, b) == CommitCmp(a, b) = Less
CommitGt(a, b) == CommitCmp(a, b) = Greater

\* Option<Version>'s derived ordering: None is below every Some.
OptVersionLt(a, b) ==
    IF ~a.some THEN b.some
    ELSE IF ~b.some THEN FALSE
    ELSE VersionLt(a.val, b.val)

\* Commit::from((hash, date)) of main.rs
Commit_from(hash, dateText) ==
    LET dt == parse_from_str(dateText)
    IN  IF dt.tag = "Ok" THEN Ok([hash |-> hash, date |-> dt.val]) ELSE Err

\* impl FromStr for Commit of manifest.rs; split[1] aborts when the text
\* has no space.
Commit_from_str(text) ==
    LET split == SplitN2(trim_matches(text), " ")
    IN  IF Len(split) < 2 THEN Panic
        ELSE LET dt == parse_from_str(split[2])
             IN  IF dt.tag = "Ok" THEN Ok([hash |-> split[1], date |-> dt.val])
                 ELSE Err

VersionAndTag_MutKeepsTag(raw) == <<raw, <<>> >>

\* The (version, channel) pair both parsers take from the raw version.
VersionAndTag(raw) ==
    LET split == Split(raw, "-")
    IN  IF Len(split) = 2 THEN <<split[1], split[2]>> ELSE <<split[1], <<>> >>

\* impl FromStr for Version of main.rs; split[1] and split[2] abort when the
\* text has fewer than three words.
main_Version_from_str(s) ==
    LET words == split_whitespace(s)
        split == [i \in 1..Len(words) |-> trim_matches(words[i])]
    IN  IF Len(split) < 3 THEN Panic
        ELSE
        LET vt == VersionAndTag(split[1])
            commit == Commit_from(split[2], split[3])
            channel == Channel_from_str(vt[2])
        IN  IF commit.tag # "Ok" THEN Err
            ELSE IF ~channel.some THEN Err
            ELSE Ok([channel |-> channel.val, version |-> vt[1],
                     commit |-> commit.val])

\* impl FromStr for Version of manifest.rs; split[1] aborts when the text
\* has no space.
Version_from_str(s) ==
    LET split == SplitN2(s, " ")
    IN  IF Len(split) < 2 THEN Panic
        ELSE
        LET vt == VersionAndTag(split[1])
            commit == Commit_from_str(split[2])
            channel == Channel_parse(vt[2])
        IN  IF commit.tag # "Ok" THEN commit
            ELSE IF channel.tag # "Ok" THEN Err
            ELSE Ok([channel |-> channel.val, version |-> vt[1],
                     commit |-> commit.val])

(***************************************************************************)
(* Manifest (main.rs:262-349).  A manifest is [date, pkg, renames]: pkg    *)
(* maps a package name to [version, target], target maps a target name to  *)
(* a PackageInfo [available, url], renames maps an alias to [to].  The     *)
(* maps are functions whose DOMAIN holds the keys present.  Package and    *)
(* target names are only compared and used as keys, so they are strings.   *)
(* manifest_version and the hashes of PackageInfo are read by no operation *)
(* of the model and are left out.                                          *)
(***************************************************************************)

\* get_pkg_for_target with the two lookups in the other order: "*" first.
get_pkg_for_target_MutWildcardFirst(m, pkg, target) ==
    IF pkg \in DOMAIN m.pkg
    THEN LET package_target == m.pkg[pkg]
         IN  IF "*" \in DOMAIN package_target.target
             THEN Some(package_target.target["*"])
             ELSE IF target \in DOMAIN package_target.target
                  THEN Some(package_target.target[target])
                  ELSE None
    ELSE None

\* Manifest::get_pkg_for_target: Option<PackageInfo>
get_pkg_for_target(m, pkg, target) ==
    IF pkg \in DOMAIN m.pkg
    THEN LET package_target == m.pkg[pkg]
         IN  IF target \in DOMAIN package_target.target
             THEN Some(package_target.target[target])
             ELSE IF "*" \in DOMAIN package_target.target
                  THEN Some(package_target.target["*"])
                  ELSE None
    ELSE None

\* Manifest::get_pkg_version: Result<Version, String>; the parse aborts on a
\* version text of fewer than three words.
get_pkg_version(m, name) ==
    IF name \notin DOMAIN m.pkg THEN Err
    ELSE main_Version_from_str(m.pkg[name].version)

(***************************************************************************)
(* Component, Toolchain, Rust (main.rs:23-178)                             *)
(***************************************************************************)

\* Component::from; the unwrap aborts when the installed manifest has no
\* parsable version for the name.
Component_from(m, name) ==
    [name |-> name,
     required |-> name \in {"rustc", "cargo"},
     version |-> get_pkg_version(m, name).val]

\* component_list without the filter: every installed name.
component_list_MutListsAll(tc) ==
    [i \in 1..Len(tc.components) |-> tc.components[i].name]

\* Toolchain::component_list: the names of the components not required.
component_list(tc) ==
    LET opt == SelectSeq(tc.components, LAMBDA c : ~c.required)
    IN  [i \in 1..Len(opt) |-> opt[i].name]

\* is_missing without the renames table: the name looked up unchanged.
is_missing_MutNoRename(m, target, c) ==
    LET package_info == get_pkg_for_target(m, c, target)
    IN  IF package_info.some THEN ~package_info.val.available ELSE TRUE

\* The closure of the filter in Rust::missing_components: TRUE when
\* component c is missing from manifest m for the target.
is_missing(m, target, c) ==
    LET component == IF c \in DOMAIN m.renames THEN m.renames[c].to ELSE c
        package_info == get_pkg_for_target(m, component, target)
    IN  IF package_info.some THEN ~package_info.val.available ELSE TRUE

\* missing_components looking only at the components that are not required.
missing_components_MutSkipsRequired(mf, tc) ==
    IF mf.some
    THEN LET opt == SelectSeq(tc.components, LAMBDA c : ~c.required)
             names == [i \in 1..Len(opt) |-> opt[i].name]
         IN  SelectSeq(names, LAMBDA c : is_missing(mf.val, tc.target, c))
    ELSE <<>>

\* Rust::missing_components, on the fields of Rust it reads.
missing_components(mf, tc) ==
    IF mf.some
    THEN LET names == [i \in 1..Len(tc.components) |-> tc.components[i].name]
         IN  SelectSeq(names, LAMBDA c : is_missing(mf.val, tc.target, c))
    ELSE <<>>

\* Rust::update_info: Result of Option<Vec<Component>>.  The closure of the
\* filter unwraps the manifest and the published version of each installed
\* component, so it aborts when there is a component and no manifest, or a
\* component the manifest has no parsable version for under its own name;
\* != on Version is the negation of PartialEq.
update_info(mf, tc) ==
    IF missing_components(mf, tc) = <<>>
    THEN IF tc.components = <<>> THEN Ok(Some(<<>>))
         ELSE IF ~mf.some THEN Panic
         ELSE IF \E i \in 1..Len(tc.components) :
                    get_pkg_version(mf.val, tc.components[i].name).tag # "Ok"
              THEN Panic
         ELSE Ok(Some(SelectSeq(tc.components,
                LAMBDA c : ~VersionEq(c.version,
                                      get_pkg_version(mf.val, c.name).val))))
    ELSE Ok(None)

\* Rust::manifest_pkg_version: Option<Version>.  The result record keeps a
\* Panic of the parse apart from the Option the caller receives.
manifest_pkg_version(mf, name) ==
    IF mf.some
    THEN LET r == get_pkg_version(mf.val, name)
         IN  IF r.tag = "Panic" THEN Panic ELSE Ok(ok(r))
    ELSE Ok(None)

(***************************************************************************)
(* The inputs of the scan: the clock, the installed toolchain and what the *)
(* release server answers.                                                 *)
(***************************************************************************)

\* Local::today(), the same day throughout a run.
Today == DayNumber([y |-> 2019, m |-> 1, d |-> 15])

\* The scan is followed for at most MaxOffset days back.
MaxOffset == 33

NumText == <<"1", ".", "3", "3", ".", "0">>
NightlyTag == <<"-", "n", "i", "g", "h", "t", "l", "y">>

\* "<version><tag> (<hash> <date>)"
VersionText(num, tag, hash, dateText) ==
    num \o tag \o <<" ", "(">> \o hash \o <<" ">> \o dateText \o <<")">>

RustOlder ==
    VersionText(NumText, NightlyTag, <<"a", "a", "a">>,
                <<"2", "0", "1", "9", "-", "0", "1", "-", "1", "0">>)
RustInstalled ==
    VersionText(NumText, NightlyTag, <<"b", "b", "b">>,
                <<"2", "0", "1", "9", "-", "0", "1", "-", "1", "2">>)
RustNewer ==
    VersionText(NumText, NightlyTag, <<"c", "c", "c">>,
                <<"2", "0", "1", "9", "-", "0", "1", "-", "1", "4">>)
\* a package without a release that day has an empty version text
RustUnpublished == <<>>

RustTexts == {RustOlder, RustInstalled, RustNewer, RustUnpublished}

Info(available, url) == [available |-> available, url |-> url]

Package(version, targets) == [version |-> version, target |-> targets]

NoRenames == [a \in {} |-> [to |-> a]]

\* The base packages every published descriptor carries for target T.
BasePkg(rustText) ==
    [n \in {"rust", "rustc", "cargo"} |->
        Package(IF n = "rust" THEN rustText ELSE RustInstalled,
                [t \in {"T"} |-> Info(TRUE, "T")])]

\* How a descriptor carries clippy: available or unavailable for T, not at
\* all, or under the package clippy-preview (platform independent) with a
\* rename from clippy.
ClippyModes == {"available", "unavailable", "absent", "renamed"}

ScanManifest(day, rustText, clippy) ==
    [date |-> day,
     pkg |->
        CASE clippy = "available" ->
                BasePkg(rustText) @@
                ("clippy" :> Package(RustInstalled, "T" :> Info(TRUE, "T")))
          [] clippy = "unavailable" ->
                BasePkg(rustText) @@
                ("clippy" :> Package(RustUnpublished, "T" :> Info(FALSE, "T")))
          [] clippy = "absent" -> BasePkg(rustText)
          [] clippy = "renamed" ->
                BasePkg(rustText) @@
                ("clippy-preview" :> Package(RustInstalled, "*" :> Info(TRUE, "*"))),
     renames |->
        IF clippy = "renamed" THEN "clippy" :> [to |-> "clippy-preview"]
        ELSE NoRenames]

\* The descriptors the server may publish for a day.
Manifests(day) ==
    {ScanManifest(day, rt, cl) : rt \in RustTexts, cl \in ClippyModes}

\* The errors of fetch_manifest: no descriptor for the day, or a failure of
\* the connection.
FetchErrors == {"NotFound", "TransportError"}

FetchErr(reason) == [tag |-> "Err", val |-> reason]

\* The descriptor bundled with the installed toolchain (get_manifest), of
\* the build published on 2019-01-13; withRust says whether it carries the
\* package "rust".
InstalledDate == DayNumber([y |-> 2019, m |-> 1, d |-> 13])

InstalledManifest(withRust) ==
    LET full == ScanManifest(InstalledDate, RustInstalled, "available")
    IN  IF withRust THEN full
        ELSE [full EXCEPT !.pkg =
                [n \in DOMAIN full.pkg \ {"rust"} |-> full.pkg[n]]]

\* Toolchain::new, from the manifest and the component names read from the
\* installation.
Toolchain_new(m, names) ==
    [channel |-> "nightly",
     target |-> "T",
     components |-> [i \in 1..Len(names) |-> Component_from(m, names[i])],
     manifest |-> m]

ComponentLists == {<<>>, <<"rustc", "cargo">>, <<"rustc", "cargo", "clippy">>}

Toolchains ==
    {Toolchain_new(InstalledManifest(w), names) :
        w \in BOOLEAN, names \in ComponentLists}

(***************************************************************************)
(* The scan of main() (main.rs:524-552)                                    *)
(***************************************************************************)

NoOutput == [kind |-> "none", date |-> 0, add |-> None]

\* Manifest::from_date: the fetch with its error dropped.
from_date(r) == ok(r)

\* next_offset stepping two days: every other day is skipped.
next_offset_MutSkip(o) == o + 2

\* Iterator::next, main.rs:190
next_offset(o) == o + 1

\* Iterator::next, main.rs:191-193
next_date(o) == Today - o

\* filter_pred without the test that the day has a descriptor.
filter_pred_MutNoDescriptorTest(mf, tc) == missing_components(mf, tc) = <<>>

\* The predicate of the filter in main(), main.rs:529
filter_pred(mf, tc) == mf.some /\ missing_components(mf, tc) = <<>>

\* recommendation with "update" for a newer version found on any day.
recommendation_MutIgnoreOffset(o, newer) ==
    IF newer THEN "update" ELSE IF o = 0 THEN "uptodate" ELSE "pin"

\* recommendation with "up to date" for a version not newer found on any day.
recommendation_MutUpToDateAnywhere(o, newer) ==
    IF o = 0 /\ newer THEN "update" ELSE IF ~newer THEN "uptodate" ELSE "pin"

\* The match of main(), main.rs:533-551: which message is printed.
recommendation(o, newer) ==
    IF o = 0 /\ newer THEN "update"
    ELSE IF o = 0 THEN "uptodate"
    ELSE "pin"

Init ==
    /\ pc = "scan"
    /\ offset = -1
    /\ date = Today
    /\ toolchain \in Toolchains
    /\ \/ \E reason \in FetchErrors : response = FetchErr(reason)
       \/ \E m \in Manifests(Today) : response = Ok(m)
    /\ manifest = from_date(response)
    /\ output = NoOutput
    /\ evaluated = {}
    /\ qualified = {}
    /\ input = <<>>
    /\ result = <<>>

\* One pull of the filter in main(): Iterator::next moves the cursor one day
\* back and fetches that day's descriptor (answer r), then the predicate
\* decides whether nth(0) returns this item.
Step(r) ==
    /\ pc = "scan"
    /\ offset < MaxOffset
    /\ offset' = next_offset(offset)
    /\ date' = next_date(offset')
    /\ response' = r
    /\ manifest' = from_date(r)
    /\ evaluated' = evaluated \cup {date'}
    /\ qualified' =
         IF r.tag = "Ok" /\ missing_components(Some(r.val), toolchain) = <<>>
         THEN qualified \cup {date'}
         ELSE qualified
    /\ pc' = IF filter_pred(manifest', toolchain) THEN "found" ELSE "scan"
    /\ UNCHANGED <<toolchain, output, input, result>>

StepFetchFails == \E reason \in FetchErrors : Step(FetchErr(reason))

StepFetched == \E m \in Manifests(next_date(next_offset(offset))) : Step(Ok(m))

\* The match of main() on the item found, and the message printed.
Recommend ==
    /\ pc = "found"
    /\ LET installed == get_pkg_version(toolchain.manifest, "rust")
           found == manifest_pkg_version(manifest, "rust")
       IN  IF installed.tag = "Panic" \/ found.tag = "Panic"
           THEN /\ pc' = "aborted"
                /\ UNCHANGED output
           ELSE LET kind == recommendation(offset,
                                           OptVersionLt(ok(installed), found.val))
                IN  /\ pc' = "done"
                    /\ output' =
                         [kind |-> kind,
                          date |-> IF kind = "uptodate" THEN 0 ELSE date,
                          add |-> IF kind = "pin" /\ Len(toolchain.components) # 0
                                  THEN Some(component_list(toolchain))
                                  ELSE None]
    /\ UNCHANGED <<offset, date, toolchain, response, manifest,
                   evaluated, qualified, input, result>>

Next == StepFetchFails \/ StepFetched \/ Recommend

Spec == Init /\ [][Next]_vars

(***************************************************************************)
(* The orderings applied to drawn versions.  The state holds three         *)
(* versions in input; Compare stores every pairwise comparison in result.  *)
(***************************************************************************)

Date_2019_01_12 == [y |-> 2019, m |-> 1, d |-> 12]
Date_2019_01_13 == [y |-> 2019, m |-> 1, d |-> 13]

\* "1.10" is below "1.9" as a string.
VersionUniverse ==
    {[channel |-> ch, version |-> v, commit |-> [hash |-> h, date |-> dt]] :
        ch \in Channels,
        v \in {<<"1", ".", "9">>, <<"1", ".", "1", "0">>},
        h \in {<<"a", "a", "a">>, <<"b", "b", "b">>},
        dt \in {Date_2019_01_12, Date_2019_01_13}}

Idle ==
    /\ offset = 0
    /\ date = Today
    /\ response = FetchErr("NotFound")
    /\ output = NoOutput
    /\ evaluated = {}
    /\ qualified = {}

InitVersion ==
    /\ pc = "input"
    /\ input \in VersionUniverse \X VersionUniverse \X VersionUniverse
    /\ result = <<>>
    /\ toolchain = <<>>
    /\ manifest = None
    /\ Idle

Pairs == (1..3) \X (1..3)

Compare ==
    /\ pc = "input"
    /\ pc' = "output"
    /\ result' =
         [cmp |-> [p \in Pairs |-> VersionCmp(input[p[1]], input[p[2]])],
          eq |-> [p \in Pairs |-> VersionEq(input[p[1]], input[p[2]])],
          lt |-> [p \in Pairs |-> VersionLt(input[p[1]], input[p[2]])],
          gt |-> [p \in Pairs |-> VersionGt(input[p[1]], input[p[2]])],
          ccmp |-> [p \in Pairs |->
                        CommitCmp(input[p[1]].commit, input[p[2]].commit)],
          ceq |-> [p \in Pairs |->
                        CommitEq(input[p[1]].commit, input[p[2]].commit)]]
    /\ UNCHANGED <<offset, date, toolchain, response, manifest, output,
                   evaluated, qualified, input>>

SpecVersion == InitVersion /\ [][Compare]_vars

(***************************************************************************)
(* The parsers applied to drawn texts.  A text is a raw version, a         *)
(* separator and a commit part; input keeps the three parts.               *)
(***************************************************************************)

BetaTag == <<"-", "b", "e", "t", "a">>
HashText == <<"9", "e", "a", "c">>
DateText == <<"2", "0", "1", "8", "-", "1", "2", "-", "3", "1">>
\* day 31 of month 12 written as month 31, day 12
SwappedDateText == <<"2", "0", "1", "8", "-", "3", "1", "-", "1", "2">>

RawWellFormed ==
    {NumText,
     NumText \o NightlyTag,
     NumText \o BetaTag,
     NumText \o <<"-", "s", "t", "a", "b", "l", "e">>,
     NumText \o <<"-">>}

\* a tag that names no channel
RawUnknownChannel == NumText \o <<"-", "d", "e", "v">>
\* a raw version with two hyphens
RawTwoHyphens == NumText \o BetaTag \o <<"-", "2">>

RawVersions == RawWellFormed \cup {RawUnknownChannel, RawTwoHyphens}

\* a second hash and date (tests.rs:9)
OtherHashText == <<"a", "e", "0", "d">>
OtherDateText == <<"2", "0", "1", "9", "-", "0", "1", "-", "1", "2">>

CommitWellFormed ==
    {<<"(">> \o HashText \o <<" ">> \o DateText \o <<")">>,
     <<"(">> \o OtherHashText \o <<" ">> \o OtherDateText \o <<")">>}

\* the hash without a date, a date that does not parse, no commit part, and
\* a version and a commit where the commit should be (tests.rs:24)
CommitNoDate == <<"(">> \o HashText \o <<")">>
CommitBadDate == <<"(">> \o HashText \o <<" ">> \o SwappedDateText \o <<")">>
CommitEmpty == <<>>
CommitTwoParts ==
    <<"1", ".", "3", "1", " ", "(">> \o HashText \o <<" ">> \o DateText \o <<")">>
CommitTrailing ==
    <<"(">> \o HashText \o <<" ">> \o DateText \o <<")", " ", "x">>
CommitNoHash == <<"(">> \o DateText \o <<")">>

CommitTexts ==
    CommitWellFormed \cup
    {CommitNoDate, CommitBadDate, CommitEmpty, CommitTwoParts, CommitTrailing,
     CommitNoHash}

Separators == {<<>>, <<" ">>}

ParseInputs == [raw : RawVersions, sep : Separators, commit : CommitTexts]

Text(in) == in.raw \o in.sep \o in.commit

InitParse ==
    /\ pc = "input"
    /\ input \in ParseInputs
    /\ result = <<>>
    /\ toolchain = <<>>
    /\ manifest = None
    /\ Idle

\* Version::from_str of main.rs on the text
ParseMain ==
    /\ pc = "input"
    /\ pc' = "output"
    /\ result' = [parser |-> "main.rs", r |-> main_Version_from_str(Text(input))]
    /\ UNCHANGED <<offset, date, toolchain, response, manifest, output,
                   evaluated, qualified, input>>

\* Version::from_str of manifest.rs on the text
ParseManifest ==
    /\ pc = "input"
    /\ pc' = "output"
    /\ result' = [parser |-> "manifest.rs", r |-> Version_from_str(Text(input))]
    /\ UNCHANGED <<offset, date, toolchain, response, manifest, output,
                   evaluated, qualified, input>>

NextParse == ParseMain \/ ParseManifest

SpecParse == InitParse /\ [][NextParse]_vars

(***************************************************************************)
(* The lookups applied to drawn manifests.  manifest and toolchain hold    *)
(* the fields of Rust that missing_components reads; input names the       *)
(* package of a direct get_pkg_for_target call.                            *)
(***************************************************************************)

ResolveNames == {"rls", "rls-preview"}
TargetKeys == {"T", "*"}
\* the local target: T may be a key of a package, U never is
LocalTargets == {"T", "U"}

TargetMaps ==
    UNION {{[k \in D |-> Info(f[k], k)] : f \in [D -> BOOLEAN]} :
            D \in SUBSET TargetKeys}

PkgMaps ==
    UNION {{[n \in D |-> Package(RustInstalled, f[n])] : f \in [D -> TargetMaps]} :
            D \in SUBSET ResolveNames}

RenameMaps ==
    UNION {{[a \in D |-> [to |-> f[a]]] : f \in [D -> ResolveNames]} :
            D \in SUBSET ResolveNames}

\* rustc in a descriptor: not published, or published for T as available or
\* as unavailable
RustcMaps ==
    {[n \in {} |-> Package(RustInstalled, [t \in {} |-> Info(TRUE, t)])]} \cup
    {"rustc" :> Package(RustInstalled, "T" :> Info(a, "T")) : a \in BOOLEAN}

ResolveManifests ==
    {[date |-> Today, pkg |-> p @@ rc, renames |-> r] :
        p \in PkgMaps, rc \in RustcMaps, r \in RenameMaps}

\* The installed manifest of these toolchains carries the three packages.
ResolveInstalled ==
    [date |-> InstalledDate,
     pkg |-> [n \in ResolveNames \cup {"rustc"} |->
                Package(RustInstalled, [t \in {"T"} |-> Info(TRUE, "T")])],
     renames |-> NoRenames]

ResolveToolchains ==
    {[Toolchain_new(ResolveInstalled, names) EXCEPT !.target = t] :
        names \in {<<>>, <<"rls">>, <<"rls-preview">>, <<"rls", "rls-preview">>,
                   <<"rustc", "rls">>},
        t \in LocalTargets}

InitResolve ==
    /\ pc = "input"
    /\ toolchain \in ResolveToolchains
    /\ \/ manifest = None
       \/ \E m \in ResolveManifests : manifest = Some(m)
    /\ input \in [pkg : ResolveNames]
    /\ result = <<>>
    /\ Idle

\* manifest.get_pkg_for_target(input.pkg, toolchain.target)
Lookup ==
    /\ pc = "input"
    /\ manifest.some
    /\ pc' = "output"
    /\ result' = [op |-> "get_pkg_for_target",
                  v |-> get_pkg_for_target(manifest.val, input.pkg,
                                           toolchain.target)]
    /\ UNCHANGED <<offset, date, toolchain, response, manifest, output,
                   evaluated, qualified, input>>

\* rust.missing_components()
Missing ==
    /\ pc = "input"
    /\ pc' = "output"
    /\ result' = [op |-> "missing_components",
                  v |-> missing_components(manifest, toolchain)]
    /\ UNCHANGED <<offset, date, toolchain, response, manifest, output,
                   evaluated, qualified, input>>

NextResolve == Lookup \/ Missing

SpecResolve == InitResolve /\ [][NextResolve]_vars

(***************************************************************************)
(* Rust::update_info applied to drawn descriptors (main.rs:171-177).  A    *)
(* descriptor publishes rustc, cargo and clippy, each with one of three    *)
(* builds; clippy is available or unavailable for T, or published as       *)
(* clippy-preview with a rename.                                           *)
(***************************************************************************)

UpdateNames == {"rustc", "cargo", "clippy"}

PublishedTexts == {RustOlder, RustInstalled, RustNewer}

UpdateClippyModes == {"available", "unavailable", "renamed"}

UpdateManifest(v, clippy) ==
    [date |-> Today,
     pkg |->
        [n \in {"rustc", "cargo"} |-> Package(v[n], "T" :> Info(TRUE, "T"))] @@
        (CASE clippy = "available" ->
                "clippy" :> Package(v["clippy"], "T" :> Info(TRUE, "T"))
           [] clippy = "unavailable" ->
                "clippy" :> Package(v["clippy"], "T" :> Info(FALSE, "T"))
           [] clippy = "renamed" ->
                "clippy-preview" :> Package(v["clippy"], "*" :> Info(TRUE, "*"))),
     renames |->
        IF clippy = "renamed" THEN "clippy" :> [to |-> "clippy-preview"]
        ELSE NoRenames]

UpdateManifests ==
    {UpdateManifest(v, cl) :
        v \in [UpdateNames -> PublishedTexts], cl \in UpdateClippyModes}

InitUpdate ==
    /\ pc = "input"
    /\ toolchain \in {Toolchain_new(InstalledManifest(TRUE), names) :
                        names \in ComponentLists}
    /\ \/ manifest = None
       \/ \E m \in UpdateManifests : manifest = Some(m)
    /\ input = <<>>
    /\ result = <<>>
    /\ Idle

\* rust.update_info()
UpdateInfo ==
    /\ pc = "input"
    /\ pc' = "output"
    /\ result' = [op |-> "update_info", v |-> update_info(manifest, toolchain)]
    /\ UNCHANGED <<offset, date, toolchain, response, manifest, output,
                   evaluated, qualified, input>>

NextUpdate == UpdateInfo

SpecUpdate == InitUpdate /\ [][NextUpdate]_vars

(***************************************************************************)
(* Properties of the scan (checked under Spec)                             *)
(***************************************************************************)

\* The version of package rust the installed manifest and the manifest of
\* the item found carry, as main() compares them (main.rs:535).
InstalledRust == ok(get_pkg_version(toolchain.manifest, "rust"))
FoundRust == IF manifest.some THEN ok(get_pkg_version(manifest.val, "rust")) ELSE None
FoundNewer == OptVersionLt(InstalledRust, FoundRust)

\* The day of the commit the installed build was made from.
InstalledCommitDay == DayNumber(InstalledRust.val.commit.date)

ScanEnded == pc \in {"found", "done", "aborted"}

\* C1: when the scan ends in Found(d), d is the most recent day at or before
\* today whose descriptor exists and has no missing component: d qualified,
\* and every day after d up to today was examined and did not qualify.
C1_NearestQualifyingDateWins ==
    ScanEnded =>
        /\ date <= Today
        /\ date \in qualified
        /\ \A d \in (date + 1)..Today : d \in evaluated /\ d \notin qualified

\* C1 witness: a scan that ended on the day before yesterday, after two
\* nearer days were rejected.
C1_Witness ==
    /\ pc = "found"
    /\ date = Today - 2
    /\ evaluated = {Today, Today - 1, Today - 2}
    /\ qualified = {date}

\* The lookback window section 4.4 of the specification gives as an example
\* and its scenario uses; the source has no such number.
LookbackWindow == 31

\* C2: when no day of the 31-day window qualifies the scan ends as Exhausted
\* and goes no further back; so the cursor never lies beyond the window.
C2_ScanStopsAtWindow == offset <= LookbackWindow

\* C3: the scan never yields Found(d) with d before the commit day of the
\* installed build.
C3_NeverOlderThanInstalled ==
    (ScanEnded /\ InstalledRust.some) => date >= InstalledCommitDay

AvailableIn(m, p, t) ==
    /\ p \in DOMAIN m.pkg
    /\ LET tm == m.pkg[p].target
       IN  \/ t \in DOMAIN tm /\ tm[t].available
           \/ t \notin DOMAIN tm /\ "*" \in DOMAIN tm /\ tm["*"].available

InstalledNames == {toolchain.components[i].name : i \in 1..Len(toolchain.components)}
ReportedMissing == {result.v[i] : i \in 1..Len(result.v)}

\* C6: a component whose name is a key of renames is resolved through the
\* package its rename names, once, and its own name is not looked up; any
\* other component is looked up under its own name.
C6_RenameAppliedFirst ==
    (pc = "output" /\ result.op = "missing_components" /\ manifest.some) =>
        \A c \in InstalledNames :
            LET m == manifest.val
                looked == IF c \in DOMAIN m.renames THEN m.renames[c].to ELSE c
            IN  c \in ReportedMissing <=> ~AvailableIn(m, looked, toolchain.target)

\* C6 witness: rls is renamed to rls-preview, which is available for T and
\* itself renamed back; the descriptor has no package rls; rls is resolved
\* as available.
C6_Witness ==
    /\ pc = "output"
    /\ result.op = "missing_components"
    /\ manifest.some
    /\ toolchain.target = "T"
    /\ "rls" \in InstalledNames
    /\ DOMAIN manifest.val.renames = {"rls", "rls-preview"}
    /\ manifest.val.renames["rls"].to = "rls-preview"
    /\ manifest.val.renames["rls-preview"].to = "rls"
    /\ DOMAIN manifest.val.pkg = {"rls-preview"}
    /\ DOMAIN manifest.val.pkg["rls-preview"].target = {"T"}
    /\ manifest.val.pkg["rls-preview"].target["T"].available
    /\ "rls" \notin ReportedMissing

\* C7: within a package the entry of the requested target is used when it
\* exists, whatever it says; the "*" entry is used only when the target has
\* no entry; there is no result only when both are absent.
C7_TargetThenWildcard ==
    (pc = "output" /\ result.op = "get_pkg_for_target"
        /\ input.pkg \in DOMAIN manifest.val.pkg) =>
        LET tm == manifest.val.pkg[input.pkg].target
            t == toolchain.target
        IN  /\ t \in DOMAIN tm => result.v = Some(tm[t])
            /\ (t \notin DOMAIN tm /\ "*" \in DOMAIN tm) => result.v = Some(tm["*"])
            /\ ~result.v.some <=> (t \notin DOMAIN tm /\ "*" \notin DOMAIN tm)

\* C7 witness: a package with the single entry "*", available, asked for
\* target U, resolves as available.
C7_Witness ==
    /\ pc = "output"
    /\ result.op = "get_pkg_for_target"
    /\ input.pkg \in DOMAIN manifest.val.pkg
    /\ DOMAIN manifest.val.pkg[input.pkg].target = {"*"}
    /\ manifest.val.pkg[input.pkg].target["*"].available
    /\ toolchain.target = "U"
    /\ result.v.some
    /\ result.v.val.available

(***************************************************************************)
(* Properties of the orderings (checked under SpecVersion)                 *)
(***************************************************************************)

Rank(ch) == IF ch = Stable THEN 0 ELSE IF ch = Beta THEN 1 ELSE 2

\* The order the specification describes: channel, then version string,
\* then commit date.
FieldOrder(a, b) ==
    IF a.channel # b.channel THEN IntCmp(Rank(a.channel), Rank(b.channel))
    ELSE IF a.version # b.version THEN StrCmp(a.version, b.version)
    ELSE DateCmp(a.commit.date, b.commit.date)

\* C8: the order on Version compares channel, version string and commit date
\* in that order; of a < b, a == b, a > b exactly one holds; < is transitive;
\* == holds exactly when cmp is Equal.
C8_VersionStrictTotalOrder ==
    pc = "output" =>
        /\ \A p \in Pairs :
            /\ result.cmp[p] = FieldOrder(input[p[1]], input[p[2]])
            /\ Cardinality({k \in {"lt", "eq", "gt"} : result[k][p]}) = 1
            /\ result.eq[p] <=> result.cmp[p] = Equal
            /\ result.lt[p] <=> result.gt[<<p[2], p[1]>>]
        /\ (result.lt[<<1, 2>>] /\ result.lt[<<2, 3>>]) => result.lt[<<1, 3>>]

\* C8 witness: a < b by the version string within one channel and b < c by
\* the channel, so a < c; the dates run the other way.
C8_Witness ==
    /\ pc = "output"
    /\ input[1].channel = input[2].channel
    /\ input[1].version # input[2].version
    /\ input[2].channel # input[3].channel
    /\ input[1].commit.date = Date_2019_01_13
    /\ input[3].commit.date = Date_2019_01_12
    /\ result.lt[<<1, 2>>] /\ result.lt[<<2, 3>>] /\ result.lt[<<1, 3>>]

\* C9: the hash takes no part in comparison: commits of one date are equal
\* and compare Equal, a commit of a later date is greater, and versions that
\* differ only in the hash are equal.
C9_HashNeverCompared ==
    pc = "output" =>
        \A p \in Pairs :
            LET a == input[p[1]]
                b == input[p[2]]
            IN  /\ a.commit.date = b.commit.date =>
                    (result.ceq[p] /\ result.ccmp[p] = Equal)
                /\ DateCmp(a.commit.date, b.commit.date) = Greater =>
                    (result.ccmp[p] = Greater /\ ~result.ceq[p])
                /\ (a.channel = b.channel /\ a.version = b.version
                        /\ a.commit.date = b.commit.date) =>
                    (result.eq[p] /\ result.cmp[p] = Equal)

\* C9 witness: two versions that differ in the hash alone compare equal, as
\* do their commits.
C9_Witness ==
    /\ pc = "output"
    /\ input[1].commit.hash # input[2].commit.hash
    /\ [input[1] EXCEPT !.commit.hash = input[2].commit.hash] = input[2]
    /\ result.ceq[<<1, 2>>]
    /\ result.eq[<<1, 2>>]
    /\ result.ccmp[<<1, 2>>] = Equal

(***************************************************************************)
(* Properties of the parsers (checked under SpecParse)                     *)
(***************************************************************************)

\* The texts that are not "<dotted-number>[-<channel>] (<hash> <date>)":
\* the tag names no channel, the raw version has two hyphens, the separating
\* space or the commit part is missing, or the commit part is not a
\* parenthesized hash and date.
Malformed(in) ==
    \/ in.raw \notin RawWellFormed
    \/ in.sep # <<" ">>
    \/ in.commit \notin CommitWellFormed

\* C10: parsing a malformed text returns a ParseError: it neither aborts nor
\* succeeds.
C10_MalformedGivesParseError ==
    (pc = "output" /\ Malformed(input)) => result.r.tag = "Err"

\* What a well-formed text says: the channel its tag names, and the hash and
\* the date between its parentheses.
NamedChannel(raw) ==
    IF raw = NumText \o NightlyTag THEN Nightly
    ELSE IF raw = NumText \o BetaTag THEN Beta
    ELSE Stable

WrittenCommit(commit) ==
    IF commit = <<"(">> \o HashText \o <<" ">> \o DateText \o <<")">>
    THEN [hash |-> HashText, date |-> [y |-> 2018, m |-> 12, d |-> 31]]
    ELSE [hash |-> OtherHashText, date |-> [y |-> 2019, m |-> 1, d |-> 12]]

\* C11: parsing a well-formed "<dotted-number>[-<channel>] (<hash> <date>)"
\* succeeds with the dotted number before the hyphen as version, the channel
\* the tag names (Stable when the tag is absent or empty) and the commit
\* made of the hash and the date.
C11_WellFormedParses ==
    (pc = "output" /\ ~Malformed(input)) =>
        /\ result.r.tag = "Ok"
        /\ result.r.val.version = NumText
        /\ result.r.val.channel = NamedChannel(input.raw)
        /\ result.r.val.commit = WrittenCommit(input.commit)

\* "1.33.0-nightly (9eac 2018-12-31)" parsed by manifest.rs
C11_Witness ==
    /\ pc = "output"
    /\ result.parser = "manifest.rs"
    /\ input.raw = NumText \o NightlyTag
    /\ input.sep = <<" ">>
    /\ input.commit = <<"(">> \o HashText \o <<" ">> \o DateText \o <<")">>
    /\ result.r.tag = "Ok"
    /\ result.r.val.channel = Nightly

(***************************************************************************)
(* Properties of the recommendation's component list (checked under Spec)  *)
(***************************************************************************)

\* The installed names in their order, and those of them that are neither
\* rustc nor cargo.
InstalledSeq == [i \in 1..Len(toolchain.components) |-> toolchain.components[i].name]

OptionalSeq == SelectSeq(InstalledSeq, LAMBDA n : n \notin {"rustc", "cargo"})

\* C12: the "add these components" suggestion of a pin-to-older
\* recommendation lists exactly the installed components that are not
\* required: rustc and cargo never appear in it and every other installed
\* component does; no suggestion is made only when nothing but required
\* components could be listed.
C12_AddListIsOptionalComponents ==
    (pc = "done" /\ output.kind = "pin") =>
        IF output.add.some
        THEN output.add.val = OptionalSeq
        ELSE OptionalSeq = <<>>

\* a pin recommendation for a toolchain of rustc, cargo and clippy: clippy
\* alone is suggested
C12_Witness ==
    /\ pc = "done"
    /\ output.kind = "pin"
    /\ InstalledSeq = <<"rustc", "cargo", "clippy">>
    /\ output.add = Some(<<"clippy">>)

(***************************************************************************)
(* Properties of the update information (checked under SpecUpdate)         *)
(***************************************************************************)

\* The installed components that are not required and whose version in the
\* descriptor is newer than the installed one.
NewerOptional ==
    {toolchain.components[i].name : i \in
        {j \in 1..Len(toolchain.components) :
            LET c == toolchain.components[j]
            IN  /\ c.name \notin {"rustc", "cargo"}
                /\ c.name \in DOMAIN manifest.val.pkg
                /\ VersionGt(main_Version_from_str(
                                manifest.val.pkg[c.name].version).val,
                            c.version)}}

\* C13: the update information of a qualifying date lists exactly the
\* installed optional components whose published version is newer than the
\* installed one; a component published with an equal or older version is
\* not listed.
C13_UpdateListsNewerOptional ==
    (pc = "output" /\ result.op = "update_info" /\ manifest.some
        /\ result.v.tag = "Ok" /\ result.v.val.some) =>
        {result.v.val.val[i].name : i \in 1..Len(result.v.val.val)}
            = NewerOptional

(***************************************************************************)
(* Properties of a failed fetch (checked under Spec)                       *)
(***************************************************************************)

\* C14: a date whose fetch yields NotFound or TransportError is never the
\* date found and never ends the scan: the pull that meets it changes
\* nothing but the cursor, which it moved one day back, the scan goes on,
\* and the next pull examines the day before.
C14_FetchErrorOnlyMovesCursor ==
    [][/\ (offset' # offset /\ response'.tag = "Err") =>
            /\ pc' = "scan"
            /\ offset' = offset + 1
            /\ date' = Today - offset'
            /\ ~manifest'.some
            /\ date' \notin qualified'
            /\ qualified' = qualified
            /\ output' = output
            /\ toolchain' = toolchain
       /\ (pc' \in {"found", "done", "aborted"}) => response'.tag = "Ok"
       /\ (offset' # offset /\ offset >= 0 /\ response.tag = "Err") =>
            date' = date - 1
      ]_vars

\* three days back, the connection having failed on the third day
C14_Witness ==
    /\ pc = "scan"
    /\ offset = 2
    /\ date = Today - 2
    /\ response = FetchErr("TransportError")
    /\ ~manifest.some
    /\ qualified = {}
    /\ output = NoOutput

(***************************************************************************)
(* Properties of missing_components (checked under SpecResolve)            *)
(***************************************************************************)

\* C15: for a date with no descriptor missing_components reports every
\* installed component as missing: the result is the full list of installed
\* names.
C15_NoDescriptorAllMissing ==
    (pc = "output" /\ result.op = "missing_components" /\ ~manifest.some) =>
        result.v = InstalledSeq

\* The entry of the descriptor that installed name c resolves to for the
\* local target: the package its rename names, or else its own, under the
\* target's key, or else under "*".  None when there is no such entry.
ResolvedInfo(c) ==
    LET m == manifest.val
        p == IF c \in DOMAIN m.renames THEN m.renames[c].to ELSE c
        t == toolchain.target
    IN  IF p \notin DOMAIN m.pkg THEN None
        ELSE IF t \in DOMAIN m.pkg[p].target THEN Some(m.pkg[p].target[t])
        ELSE IF "*" \in DOMAIN m.pkg[p].target THEN Some(m.pkg[p].target["*"])
        ELSE None

Unresolved(c) == ~ResolvedInfo(c).some

Unavailable(c) == ResolvedInfo(c).some /\ ~ResolvedInfo(c).val.available

\* C16: for a present descriptor missing_components returns exactly the
\* installed names, required and optional alike, that are unresolved or
\* resolve to an entry with available = false, in their installed order;
\* the result is empty (the date qualifies) if and only if every installed
\* component, rustc included, resolves to an available entry.
C16_MissingAreUnresolvedOrUnavailable ==
    (pc = "output" /\ result.op = "missing_components" /\ manifest.some) =>
        /\ result.v =
             SelectSeq(InstalledSeq, LAMBDA c : Unresolved(c) \/ Unavailable(c))
        /\ (result.v = <<>>) <=>
             \A c \in InstalledNames :
                ResolvedInfo(c).some /\ ResolvedInfo(c).val.available

\* rustc published as unavailable for T and rls available: rustc alone is
\* reported
C16_Witness ==
    /\ pc = "output"
    /\ result.op = "missing_components"
    /\ manifest.some
    /\ toolchain.target = "T"
    /\ InstalledSeq = <<"rustc", "rls">>
    /\ Unavailable("rustc")
    /\ ResolvedInfo("rls").some
    /\ ResolvedInfo("rls").val.available
    /\ result.v = <<"rustc">>

====
